---- MODULE Spec2Model ----
(***************************************************************************)
(* Sleeposcope: per-subject pre-processing of a 1 Hz signal recording.     *)
(*                                                                         *)
(*   read_data -> fill_missing_data -> divide_to_24_hour_periods -> SQL    *)
(*                                                                         *)
(* A DataFrame is a record of parallel sequences: `index` holds the row    *)
(* labels in row order, every other field one column in the same order.    *)
(* numpy.nan / NaT is the value NaN; every real value is >= 0.             *)
(* Label look-ups follow the pandas the code was written for (0.20-0.22:   *)
(* to_datetime(utc=True) of a Series is tz-naive, so line 119 can          *)
(* localize it): .loc with a list of labels yields NaN for a label that is *)
(* absent and raises KeyError only when every label is absent.             *)
(***************************************************************************)
EXTENDS Integers, Sequences, FiniteSets, TLC

VARIABLES
    layout,           \* fill: block lengths of the input (measured, missing, measured, ...)
    subject_df,       \* fill: the argument of fill_missing_data
    full_subject_df,  \* fill: the re-indexed frame being filled
    sig_str_df,       \* fill: the working frame of fill_missing_signal_values
    missing_secs,     \* fill: seconds absent from the input
    block_groups,     \* fill: groups the for loop has still to visit
    fpc,              \* fill: position in fill_missing_data
    fill_result,      \* fill: the returned frame (or the raised error)
    date_time,        \* days: index and local time stamps of the dense timeline
    day_onsets,       \* days: onsets of the 24 hour periods found so far
    end_of_time,      \* days: time stamp of the last row
    next_day_onset,   \* days: the next noon boundary
    d,                \* days: the for loop's day index
    day_nums,         \* days: day number per row, NaN while unassigned
    dpc,              \* days: position in divide_to_24_hour_periods
    database_exists,          \* store: the PostgreSQL database exists
    all_subjects_table,       \* store: one entry per append to the table
    subject_num,              \* main: --subject_num
    subject_files_path,       \* main: --subject_files_path, as characters
    folder,                   \* main: what is at subject_files_path
    tz_offset,                \* main: UTC offset of US/Pacific during the recording
    database_already_existed, \* main: second result of connect_to_sql_database
    subject_data,             \* main: the frame handed from stage to stage
    pc,                       \* main: the statement to run next
    error,                    \* main: the exception that ended the run, or "ok"
    calls,                    \* history: calls of this run that returned
    store_before              \* history: the store when this run began

fillVars == <<layout, subject_df, full_subject_df, sig_str_df, missing_secs,
              block_groups, fpc, fill_result>>

dayVars == <<date_time, day_onsets, end_of_time, next_day_onset, d, day_nums, dpc>>

storeVars == <<database_exists, all_subjects_table>>

mainVars == <<subject_num, subject_files_path, folder, tz_offset, database_already_existed,
              subject_data, pc, error, calls, store_before>>

vars == <<fillVars, dayVars, storeVars, mainVars>>

-----------------------------------------------------------------------------
(* Bounds of the model *)

MaxShort == 2
MaxGaps == 2
MaxPad == 6
TicksPerHour == 1
MaxRecords == 64
MaxFiles == 2
MaxAppends == 3

-----------------------------------------------------------------------------
(* Values and Python builtins *)

NaN == -1

FillCeiling == 5 * 60

MissingFlag == -1000

Range(s) == {s[i] : i \in DOMAIN s}

\* a < b as Python evaluates it on values that may be NaN / NaT
Less(a, b) == a # NaN /\ b # NaN /\ a < b

RECURSIVE FoldMin(_, _, _)
FoldMin(s, lo, hi) ==
    IF lo = hi THEN s[lo]
    ELSE LET mid == (lo + hi) \div 2
             a == FoldMin(s, lo, mid)
             b == FoldMin(s, mid + 1, hi)
         IN  IF a = NaN THEN b ELSE IF Less(b, a) THEN b ELSE a

\* min(iterable): keeps the first item unless a later one compares smaller,
\* so a leading NaT is never replaced and a later NaT never wins
min(s) == IF s[1] = NaN THEN NaN ELSE FoldMin(s, 1, Len(s))

RECURSIVE FoldMax(_, _, _)
FoldMax(s, lo, hi) ==
    IF lo = hi THEN s[lo]
    ELSE LET mid == (lo + hi) \div 2
             a == FoldMax(s, lo, mid)
             b == FoldMax(s, mid + 1, hi)
         IN  IF a = NaN THEN b ELSE IF Less(a, b) THEN b ELSE a

max(s) == IF s[1] = NaN THEN NaN ELSE FoldMax(s, 1, Len(s))

\* label -> row position of an index (the first row wins on a repeated label)
RECURSIVE PosIn(_, _, _)
PosIn(index, lo, hi) ==
    IF lo = hi THEN index[lo] :> lo
    ELSE LET mid == (lo + hi) \div 2
         IN  PosIn(index, lo, mid) @@ PosIn(index, mid + 1, hi)

PosOf(index) == IF Len(index) = 0 THEN <<>> ELSE PosIn(index, 1, Len(index))

\* ascending sequence of the integers lo..hi
Ascending(lo, hi) == [i \in 1..(hi - lo + 1) |-> lo + i - 1]

-----------------------------------------------------------------------------
(* sanity_check_module *)

\* Python's None in place of a frame
None == [none |-> TRUE]

\* the fields of a frame that are columns of data
DataColumns(df) == DOMAIN df \ {"index", "columns"}

check_if_data_frame_is_valid(df) ==
    IF "none" \in DOMAIN df THEN "DataFrameIsNone"
    ELSE IF Len(df.index) = 0 THEN "DataFrameIsEmpty"
    ELSE IF \E c \in DataColumns(df) : \E i \in DOMAIN df[c] : df[c][i] = NaN
         THEN "DataFrameContainsNans"
    ELSE "ok"

\* lines 67-89
check_file_df_content(file_df) ==
    LET verdict == check_if_data_frame_is_valid(file_df)
    IN  IF verdict = "DataFrameIsNone" THEN "FailedToReadCSVError"
        ELSE IF verdict = "DataFrameIsEmpty" THEN "DataFileIsDefectiveError"
        ELSE IF verdict = "DataFrameContainsNans" THEN "DataFileIsDefectiveError"
        ELSE IF file_df.columns # <<"name", "time", "meas_sig_str", "status">>
             THEN "FileIsNotCorrectDataFileError"
        ELSE "ok"

\* str(subject_num), one character per digit
Digit(n) == CASE n = 0 -> "0" [] n = 1 -> "1" [] n = 2 -> "2" [] n = 3 -> "3"
              [] n = 4 -> "4" [] n = 5 -> "5" [] n = 6 -> "6" [] n = 7 -> "7"
              [] n = 8 -> "8" [] n = 9 -> "9"

RECURSIVE str(_)
str(n) == IF n < 10 THEN <<Digit(n)>> ELSE Append(str(n \div 10), Digit(n % 10))

\* path[-k:]
Suffix(path, k) == IF k >= Len(path) THEN path ELSE SubSeq(path, Len(path) - k + 1, Len(path))

\* lines 49-64
check_if_subject_num_matches_subject_files_path(num, path) ==
    IF Suffix(path, Len(str(num))) # str(num)
    THEN "Subject_num_does_not_match_subject_files_path"
    ELSE "ok"

\* lines 108-133; a folder is [exists, files]
get_file_names_if_they_exist(dir) ==
    IF ~dir.exists THEN "DataFileOrFolderDoesNotExistError"
    ELSE IF Len(dir.files) = 0 THEN "DataFileOrFolderDoesNotExistError"
    ELSE "ok"

\* lines 176-201; the table exists once rows were appended to it
does_table_exist_in_db(table) == Len(table) > 0

\* the guard finds no subject
never_in_table(num, table) == "ok"

\* lines 150-173
check_if_subject_already_in_table(num, table) ==
    IF does_table_exist_in_db(table) /\ \E i \in DOMAIN table : table[i].subject_num = num
    THEN "SubjectExistsInDBError"
    ELSE "ok"

-----------------------------------------------------------------------------
(* preprocessing_module: fill_missing_data *)

num_seconds(pandas_time_stamp) ==
    LET first == min(pandas_time_stamp)
    IN  [i \in DOMAIN pandas_time_stamp |-> pandas_time_stamp[i] - first]

set_index(df, secs) == [df EXCEPT !.index = secs]

\* DataFrame.reindex(labels): one row per label, in the order given; a label
\* the frame does not have gets a row of NaN
reindex(df, labels) ==
    LET pos == PosOf(df.index)
        known == DOMAIN pos
    IN  [index |-> labels,
         date_time |-> [i \in DOMAIN labels |->
             IF labels[i] \in known THEN df.date_time[pos[labels[i]]] ELSE NaN],
         meas_sig_str |-> [i \in DOMAIN labels |->
             IF labels[i] \in known THEN df.meas_sig_str[pos[labels[i]]] ELSE NaN]]

\* Index._can_reindex: a frame with a repeated label cannot be re-indexed
\* onto any label
can_reindex(df, labels) ==
    Cardinality(Range(df.index)) = Len(df.index) \/ Len(labels) = 0

fill_missing_time_stamps(df, missing) ==
    LET first == min(df.date_time)
    IN  [df EXCEPT !.date_time = [i \in DOMAIN df.index |->
            IF df.index[i] \in missing THEN first + df.index[i]
            ELSE df.date_time[i]]]

\* lines 235-246: the working frame, its change-point block numbers, and the
\* two columns the loop writes
new_sig_str_df(full, missing) ==
    LET n == Len(full.index)
        newcol == [i \in 1..n |-> IF full.index[i] \in missing THEN MissingFlag ELSE 0]
        change == {i \in 1..n : i = 1 \/ newcol[i - 1] # newcol[i]}
    IN  [index |-> full.index,
         meas_sig_str |-> full.meas_sig_str,
         newcol |-> newcol,
         block |-> [i \in 1..n |-> Cardinality({c \in change : c <= i})],
         block_length |-> [i \in 1..n |-> 0],
         copy_sig |-> [i \in 1..n |-> NaN]]

\* groupby(['block', 'newcol']): one group per block number, in ascending
\* order, each with the labels of its rows
groupby(sig) ==
    LET n == Len(sig.index)
        first(b) == CHOOSE i \in 1..n : sig.block[i] = b /\ (i = 1 \/ sig.block[i - 1] # b)
        last(b) == CHOOSE i \in 1..n : sig.block[i] = b /\ (i = n \/ sig.block[i + 1] # b)
    IN  [b \in 1..sig.block[n] |->
            [key |-> <<b, sig.newcol[first(b)]>>,
             index |-> [k \in 1..(last(b) - first(b) + 1) |-> sig.index[first(b) + k - 1]]]]

\* the filler labels taken one second too late
shape_filler_ind_late(missing_block_inds) ==
    [k \in DOMAIN missing_block_inds |->
        missing_block_inds[k] - Len(missing_block_inds) + 1]

\* line 253: the labels one block length before the block
shape_filler_ind(missing_block_inds) ==
    [k \in DOMAIN missing_block_inds |-> missing_block_inds[k] - Len(missing_block_inds)]

\* a ceiling one second too high
within_ceiling_plus_one(size) == size <= FillCeiling + 1

\* line 252
within_ceiling(size) == size <= FillCeiling

\* lines 248-259: one iteration of the for loop over the groups
loop_body(st, missing, group) ==
    IF group.key[2] # MissingFlag THEN st
    ELSE
    LET sig == st.sig
        full == st.full
        rows == DOMAIN sig.index
        size == Len(group.index)
        at == PosOf(group.index)
        pos == PosOf(sig.index)
        sized == [sig EXCEPT !.block_length = [i \in rows |->
                     IF sig.index[i] \in DOMAIN at THEN size ELSE sig.block_length[i]]]
        from == shape_filler_ind(group.index)
        filler == [k \in DOMAIN from |->
                     IF from[k] \in DOMAIN pos THEN sig.meas_sig_str[pos[from[k]]] ELSE NaN]
        copied == [sized EXCEPT !.copy_sig = [i \in rows |->
                     IF sig.index[i] \in DOMAIN at THEN filler[at[sig.index[i]]]
                     ELSE sig.copy_sig[i]]]
        written == [full EXCEPT !.meas_sig_str = [i \in DOMAIN full.index |->
                     IF full.index[i] \in missing THEN copied.copy_sig[pos[full.index[i]]]
                     ELSE full.meas_sig_str[i]]]
    IN  IF within_ceiling(size)
        THEN IF \A k \in DOMAIN from : from[k] \notin DOMAIN pos
             THEN [st EXCEPT !.err = "KeyError"]
             ELSE [st EXCEPT !.sig = copied, !.full = written]
        ELSE [st EXCEPT !.sig = sized]

RECURSIVE for_groups(_, _, _)
for_groups(st, missing, groups) ==
    IF groups = <<>> \/ st.err # "ok" THEN st
    ELSE for_groups(loop_body(st, missing, Head(groups)), missing, Tail(groups))

fill_missing_signal_values(full, missing) ==
    LET sig == new_sig_str_df(full, missing)
    IN  for_groups([full |-> full, sig |-> sig, err |-> "ok"], missing, groupby(sig))

\* the gate with DataFrameContainsNans no longer caught
checked_return_strict(full) ==
    LET verdict == check_if_data_frame_is_valid(full)
    IN  IF verdict = "ok"
        THEN [err |-> "ok", df |-> full]
        ELSE [err |-> verdict, df |-> None]

\* lines 180-186: the gate before the return lets DataFrameContainsNans pass
checked_return(full) ==
    LET verdict == check_if_data_frame_is_valid(full)
    IN  IF verdict \in {"ok", "DataFrameContainsNans"}
        THEN [err |-> "ok", df |-> full]
        ELSE [err |-> verdict, df |-> None]

\* lines 162-167
continuous_secs(df) == Ascending(0, max(df.index) - 1)

missing_from(df) == Range(continuous_secs(df)) \ DOMAIN PosOf(df.index)

fill_missing_data(df) ==
    LET indexed == set_index(df, num_seconds(df.date_time))
        full == reindex(indexed, continuous_secs(indexed))
        missing == missing_from(indexed)
        filled == fill_missing_signal_values(fill_missing_time_stamps(full, missing), missing)
    IN  IF ~can_reindex(indexed, continuous_secs(indexed))
        THEN [err |-> "ValueError", df |-> None]
        ELSE IF missing = {} THEN checked_return(indexed)
        ELSE IF filled.err # "ok" THEN [err |-> filled.err, df |-> None]
        ELSE checked_return(filled.full)

-----------------------------------------------------------------------------
(* Inputs of the gap-filling specification *)

ShortLens == 1..MaxShort

MeasuredLens == ShortLens \cup {FillCeiling}

MissingLens == ShortLens \cup {FillCeiling, FillCeiling + 1}

RECURSIVE SumTo(_, _)
SumTo(l, k) == IF k = 0 THEN 0 ELSE l[k] + SumTo(l, k - 1)

Total(l) == SumTo(l, Len(l))

RECURSIVE ShortSumTo(_, _)
ShortSumTo(l, k) ==
    IF k = 0 THEN 0
    ELSE (IF l[k] < FillCeiling THEN l[k] ELSE 0) + ShortSumTo(l, k - 1)

\* local time of the first record, in seconds
StartTimes == {11}

\* measured and missing block lengths alternate; the recording begins and
\* ends with a measured second; at most MaxPad seconds lie in short blocks
\* and at most two blocks are as long as the ceiling
Layouts ==
    UNION {{l \in [1..(2 * g + 1) -> MeasuredLens \cup MissingLens] :
               /\ \A k \in DOMAIN l :
                     IF k % 2 = 1 THEN l[k] \in MeasuredLens ELSE l[k] \in MissingLens
               /\ ShortSumTo(l, Len(l)) <= MaxPad
               /\ Total(l) <= 2 * FillCeiling + 1 + MaxPad} : g \in 0..MaxGaps}

\* first second of block k of a layout, and the seconds of that block
BlockStart(l, k) == SumTo(l, k - 1)

BlockSecs(l, k) == BlockStart(l, k)..(BlockStart(l, k) + l[k] - 1)

\* the signal recorded at second s: distinct per second, so that every copied
\* value names the second it came from
SignalAt(s) == s + 1

RECURSIVE MeasuredSeconds(_, _)
MeasuredSeconds(l, k) ==
    IF k > Len(l) THEN <<>>
    ELSE IF k % 2 = 1
         THEN Ascending(BlockStart(l, k), BlockStart(l, k) + l[k] - 1) \o MeasuredSeconds(l, k + 1)
         ELSE MeasuredSeconds(l, k + 1)

\* the frame read_data returns for a recording of this layout that starts at
\* local time t0: one row per measured second, default row labels
InputFrame(l, t0) ==
    LET measured == MeasuredSeconds(l, 1)
    IN  [index |-> [i \in DOMAIN measured |-> i - 1],
         date_time |-> [i \in DOMAIN measured |-> t0 + measured[i]],
         meas_sig_str |-> [i \in DOMAIN measured |-> SignalAt(measured[i])]]

NoFrame == [index |-> <<>>, date_time |-> <<>>, meas_sig_str |-> <<>>]

-----------------------------------------------------------------------------
(* States of a function that is not running *)

FillIdle ==
    /\ layout = <<>>
    /\ subject_df = NoFrame
    /\ full_subject_df = NoFrame
    /\ sig_str_df = NoFrame
    /\ missing_secs = {}
    /\ block_groups = <<>>
    /\ fpc = "idle"
    /\ fill_result = [err |-> "ok", df |-> None]

DayIdle ==
    /\ date_time = [index |-> <<>>, stamps |-> <<>>]
    /\ day_onsets = <<>>
    /\ end_of_time = NaN
    /\ next_day_onset = NaN
    /\ d = 0
    /\ day_nums = <<>>
    /\ dpc = "idle"

MainIdle ==
    /\ database_exists = FALSE
    /\ all_subjects_table = <<>>
    /\ subject_num = 0
    /\ subject_files_path = <<>>
    /\ folder = [exists |-> FALSE, files |-> <<>>]
    /\ tz_offset = 0
    /\ database_already_existed = FALSE
    /\ subject_data = None
    /\ pc = "idle"
    /\ error = "ok"
    /\ calls = <<>>
    /\ store_before = [database_exists |-> FALSE, all_subjects_table |-> <<>>]

-----------------------------------------------------------------------------
(* fill_missing_data, statement by statement *)

FillInit ==
    /\ layout \in Layouts
    /\ \E t0 \in StartTimes : subject_df = InputFrame(layout, t0)
    /\ full_subject_df = NoFrame
    /\ sig_str_df = NoFrame
    /\ missing_secs = {}
    /\ block_groups = <<>>
    /\ fpc = "call"
    /\ fill_result = [err |-> "ok", df |-> None]
    /\ DayIdle
    /\ MainIdle

\* lines 157-167
FillReindex ==
    /\ fpc = "call"
    /\ LET indexed == set_index(subject_df, num_seconds(subject_df.date_time))
       IN  /\ subject_df' = indexed
           /\ IF can_reindex(indexed, continuous_secs(indexed))
              THEN /\ full_subject_df' = reindex(indexed, continuous_secs(indexed))
                   /\ missing_secs' = missing_from(indexed)
                   /\ fpc' = "reindexed"
                   /\ fill_result' = fill_result
              ELSE /\ fpc' = "done"
                   /\ fill_result' = [err |-> "ValueError", df |-> None]
                   /\ UNCHANGED <<full_subject_df, missing_secs>>
    /\ UNCHANGED <<layout, sig_str_df, block_groups>>
    /\ UNCHANGED <<dayVars, storeVars, mainVars>>

\* lines 169-170
FillNothingMissing ==
    /\ fpc = "reindexed"
    /\ missing_secs = {}
    /\ full_subject_df' = subject_df
    /\ fpc' = "check"
    /\ UNCHANGED <<layout, subject_df, sig_str_df, missing_secs, block_groups, fill_result>>
    /\ UNCHANGED <<dayVars, storeVars, mainVars>>

\* lines 172-174 and 235-246
FillTimeStamps ==
    /\ fpc = "reindexed"
    /\ missing_secs # {}
    /\ full_subject_df' = fill_missing_time_stamps(full_subject_df, missing_secs)
    /\ sig_str_df' = new_sig_str_df(full_subject_df', missing_secs)
    /\ block_groups' = groupby(sig_str_df')
    /\ fpc' = "loop"
    /\ UNCHANGED <<layout, subject_df, missing_secs, fill_result>>
    /\ UNCHANGED <<dayVars, storeVars, mainVars>>

\* lines 247-259, one group
FillGroup ==
    /\ fpc = "loop"
    /\ block_groups # <<>>
    /\ LET st == loop_body([full |-> full_subject_df, sig |-> sig_str_df, err |-> "ok"],
                           missing_secs, Head(block_groups))
       IN  /\ full_subject_df' = st.full
           /\ sig_str_df' = st.sig
           /\ IF st.err = "ok"
              THEN /\ fpc' = "loop"
                   /\ fill_result' = fill_result
              ELSE /\ fpc' = "done"
                   /\ fill_result' = [err |-> st.err, df |-> None]
    /\ block_groups' = Tail(block_groups)
    /\ UNCHANGED <<layout, subject_df, missing_secs>>
    /\ UNCHANGED <<dayVars, storeVars, mainVars>>

\* lines 261 and 178
FillLoopEnd ==
    /\ fpc = "loop"
    /\ block_groups = <<>>
    /\ fpc' = "check"
    /\ UNCHANGED <<layout, subject_df, full_subject_df, sig_str_df, missing_secs,
                   block_groups, fill_result>>
    /\ UNCHANGED <<dayVars, storeVars, mainVars>>

\* lines 180-186
FillReturn ==
    /\ fpc = "check"
    /\ fill_result' = checked_return(full_subject_df)
    /\ fpc' = "done"
    /\ UNCHANGED <<layout, subject_df, full_subject_df, sig_str_df, missing_secs,
                   block_groups>>
    /\ UNCHANGED <<dayVars, storeVars, mainVars>>

FillNext ==
    \/ FillReindex
    \/ FillNothingMissing
    \/ FillTimeStamps
    \/ FillGroup
    \/ FillLoopEnd
    \/ FillReturn

SpecFill == FillInit /\ [][FillNext]_vars

-----------------------------------------------------------------------------
(* preprocessing_module: convert_to_local_time, divide_to_24_hour_periods   *)
(*                                                                         *)
(* A time stamp is a count of ticks of local wall-clock time, tph ticks to *)
(* the hour, from midnight of day 0.  The UTC offset of US/Pacific is one  *)
(* of PacificOffsets and does not change within a recording.               *)

\* hours US/Pacific is behind UTC (daylight saving, standard)
PacificOffsets == {7, 8}

\* lines 118-121
convert_to_local_time(time_stamps, offset, tph) ==
    [i \in DOMAIN time_stamps |-> time_stamps[i] - offset * tph]

\* Timestamp.hour and Timestamp.date()
hour(t, tph) == (t \div tph) % 24

date(t, tph) == t \div (24 * tph)

\* pd.to_datetime(str(date) + ' 12:00:00')
noon_of(day, tph) == (day * 24 + 12) * tph

\* pd.Timedelta('24 hours')
Timedelta24(tph) == 24 * tph

GreaterEq(a, b) == a # NaN /\ b # NaN /\ a >= b

\* Series[label] on the frame's index
at_label(index, column, label) == column[PosOf(index)[label]]

\* lines 288-293
first_onset(start, tph) ==
    IF hour(start, tph) < 12
    THEN noon_of(date(start, tph), tph)
    ELSE noon_of(date(start, tph), tph) + Timedelta24(tph)

\* line 301, d counted from 0 as in the code
tomorrow_of(onsets, next, day) ==
    IF day + 1 < Len(onsets) - 1 THEN onsets[day + 2] ELSE next

\* lines 302-303
assign_day(nums, stamps, onsets, next, day) ==
    [i \in DOMAIN stamps |->
        IF /\ GreaterEq(stamps[i], onsets[day + 1])
           /\ Less(stamps[i], tomorrow_of(onsets, next, day))
        THEN day + 1
        ELSE nums[i]]

RECURSIVE while_onsets(_, _, _, _)
while_onsets(onsets, next, last, tph) ==
    IF Less(next, last)
    THEN while_onsets(Append(onsets, next), next + Timedelta24(tph), last, tph)
    ELSE [day_onsets |-> onsets, next_day_onset |-> next]

RECURSIVE for_days(_, _, _, _, _)
for_days(nums, stamps, onsets, next, day) ==
    IF day >= Len(onsets) THEN nums
    ELSE for_days(assign_day(nums, stamps, onsets, next, day), stamps, onsets, next, day + 1)

\* lines 280-307: the num_days column
divide_to_24_hour_periods(index, stamps, tph) ==
    LET start == at_label(index, stamps, 0)
        last == at_label(index, stamps, Len(stamps) - 1)
        found == while_onsets(<<start>>, first_onset(start, tph), last, tph)
    IN  for_days([i \in DOMAIN stamps |-> NaN], stamps,
                 found.day_onsets, found.next_day_onset, 0)

-----------------------------------------------------------------------------
(* divide_to_24_hour_periods, statement by statement *)

\* a dense timeline of n rows whose first row is stamped utc0 in UTC
DayInit ==
    /\ \E n \in 1..MaxRecords, offset \in PacificOffsets,
          utc0 \in (24 * TicksPerHour)..(48 * TicksPerHour - 1) :
          date_time = [index |-> Ascending(0, n - 1),
                       stamps |-> convert_to_local_time(
                                      Ascending(utc0, utc0 + n - 1), offset, TicksPerHour)]
    /\ day_onsets = <<>>
    /\ end_of_time = NaN
    /\ next_day_onset = NaN
    /\ d = 0
    /\ day_nums = <<>>
    /\ dpc = "call"
    /\ FillIdle
    /\ MainIdle

\* lines 280-293
DayStart ==
    /\ dpc = "call"
    /\ day_nums' = [i \in DOMAIN date_time.stamps |-> NaN]
    /\ day_onsets' = <<at_label(date_time.index, date_time.stamps, 0)>>
    /\ end_of_time' = at_label(date_time.index, date_time.stamps, Len(date_time.stamps) - 1)
    /\ next_day_onset' = first_onset(day_onsets'[1], TicksPerHour)
    /\ dpc' = "while"
    /\ UNCHANGED <<date_time, d>>
    /\ UNCHANGED <<fillVars, storeVars, mainVars>>

\* lines 295-297, one iteration
DayAppendOnset ==
    /\ dpc = "while"
    /\ Less(next_day_onset, end_of_time)
    /\ day_onsets' = Append(day_onsets, next_day_onset)
    /\ next_day_onset' = next_day_onset + Timedelta24(TicksPerHour)
    /\ UNCHANGED <<date_time, end_of_time, d, day_nums, dpc>>
    /\ UNCHANGED <<fillVars, storeVars, mainVars>>

\* line 295 false, line 300
DayOnsetsFound ==
    /\ dpc = "while"
    /\ ~Less(next_day_onset, end_of_time)
    /\ d' = 0
    /\ dpc' = "for"
    /\ UNCHANGED <<date_time, day_onsets, end_of_time, next_day_onset, day_nums>>
    /\ UNCHANGED <<fillVars, storeVars, mainVars>>

\* lines 300-303, one iteration
DayAssign ==
    /\ dpc = "for"
    /\ d < Len(day_onsets)
    /\ day_nums' = assign_day(day_nums, date_time.stamps, day_onsets, next_day_onset, d)
    /\ d' = d + 1
    /\ UNCHANGED <<date_time, day_onsets, end_of_time, next_day_onset, dpc>>
    /\ UNCHANGED <<fillVars, storeVars, mainVars>>

\* lines 305-307
DayReturn ==
    /\ dpc = "for"
    /\ d >= Len(day_onsets)
    /\ dpc' = "done"
    /\ UNCHANGED <<date_time, day_onsets, end_of_time, next_day_onset, d, day_nums>>
    /\ UNCHANGED <<fillVars, storeVars, mainVars>>

DayNext ==
    \/ DayStart
    \/ DayAppendOnset
    \/ DayOnsetsFound
    \/ DayAssign
    \/ DayReturn

SpecDays == DayInit /\ [][DayNext]_vars

-----------------------------------------------------------------------------
(* preprocessing_module: read_data *)

\* the text 'time' / 'meas_sig_str' of a repeated header row
Header == -2

\* lines 39-49: the frames of the files that pass, unless a file raises
RECURSIVE read_files(_, _)
read_files(files, file_dfs) ==
    IF files = <<>> THEN [err |-> "ok", file_dfs |-> file_dfs]
    ELSE LET verdict == check_file_df_content(Head(files))
         IN  IF verdict = "ok"
             THEN read_files(Tail(files), Append(file_dfs, Head(files)))
             ELSE IF verdict = "FileIsNotCorrectDataFileError"
             THEN read_files(Tail(files), file_dfs)
             ELSE [err |-> verdict, file_dfs |-> file_dfs]

RECURSIVE Joined(_, _)
Joined(file_dfs, column) ==
    IF file_dfs = <<>> THEN <<>>
    ELSE Head(file_dfs)[column] \o Joined(Tail(file_dfs), column)

\* pd.concat(file_dfs, ignore_index=True)
concat(file_dfs) ==
    LET joined == Joined(file_dfs, "time")
    IN  [index |-> [i \in DOMAIN joined |-> i - 1],
         time |-> joined,
         meas_sig_str |-> Joined(file_dfs, "meas_sig_str")]

\* lines 83-89: the rows whose time is not the header text, under their labels
clean_up(df) ==
    LET kept == SelectSeq([i \in DOMAIN df.index |-> i], LAMBDA i : df.time[i] # Header)
    IN  [index |-> [k \in DOMAIN kept |-> df.index[kept[k]]],
         time |-> [k \in DOMAIN kept |-> df.time[kept[k]]],
         meas_sig_str |-> [k \in DOMAIN kept |-> df.meas_sig_str[kept[k]]]]

\* lines 17-68
read_data(dir, offset, tph) ==
    LET named == get_file_names_if_they_exist(dir)
        read == read_files(dir.files, <<>>)
        whole == concat(read.file_dfs)
        clean == clean_up(whole)
        local == [index |-> clean.index,
                  date_time |-> convert_to_local_time(clean.time, offset, tph),
                  meas_sig_str |-> clean.meas_sig_str]
        failed(e) == [err |-> e, df |-> None]
    IN  IF named # "ok" THEN failed(named)
        ELSE IF read.err # "ok" THEN failed(read.err)
        ELSE IF read.file_dfs = <<>> THEN failed("ValueError")
        ELSE IF check_if_data_frame_is_valid(whole) # "ok"
             THEN failed(check_if_data_frame_is_valid(whole))
        ELSE IF check_if_data_frame_is_valid(clean) # "ok"
             THEN failed(check_if_data_frame_is_valid(clean))
        ELSE IF check_if_data_frame_is_valid(local) # "ok"
             THEN failed(check_if_data_frame_is_valid(local))
        ELSE [err |-> "ok", df |-> local]

-----------------------------------------------------------------------------
(* talk_to_sql_module *)

\* lines 13-32: the database exists afterwards; the flag tells whether it did
connect_to_sql_database(exists) ==
    [database_exists |-> TRUE, db_already_exists |-> exists]

\* lines 35-36 with lines 72-73 of main: one append of the subject's rows
write_to_sql_database(table, data, num) ==
    Append(table, [c \in (DOMAIN data \ {"date_time"}) \cup {"subject_num"} |->
                      IF c = "subject_num" THEN num ELSE data[c]])

-----------------------------------------------------------------------------
(* Inputs of the orchestrator *)

\* one record per second
SecondsPerHour == 3600

Subjects == {2, 12}

Paths == {<<"S", "2">>, <<"S", "1", "2">>}

\* UTC second of the first record of every recording: 19:59:58,
\* two seconds before noon by Pacific standard time
FirstSecond == 44 * SecondsPerHour - 2

Columns == <<"name", "time", "meas_sig_str", "status">>

\* the frame pd.read_csv makes of a file
File(columns, times, signal) ==
    [columns |-> columns,
     index |-> [i \in DOMAIN times |-> i - 1],
     time |-> times,
     meas_sig_str |-> signal]

FirstPart == File(Columns, <<FirstSecond, FirstSecond + 1>>, <<5, 6>>)

LaterPart == File(Columns, <<FirstSecond + 3, FirstSecond + 4>>, <<8, 9>>)

\* recorded after FillCeiling + 1 seconds without a record, the header
\* repeated inside
WithHeaderRow ==
    File(Columns, <<FirstSecond + FillCeiling + 3, Header, FirstSecond + FillCeiling + 4>>,
         <<3, Header, 4>>)

ExtraColumn == File(Columns \o <<"extra">>, <<FirstSecond + 9, FirstSecond + 10>>, <<1, 2>>)

NoRows == File(Columns, <<>>, <<>>)

WithNaN == File(Columns, <<FirstSecond + 12, FirstSecond + 13>>, <<7, NaN>>)

Files == {FirstPart, LaterPart, WithHeaderRow, ExtraColumn, NoRows, WithNaN}

Folders ==
    {[exists |-> FALSE, files |-> <<>>]}
    \cup {[exists |-> TRUE, files |-> f] : f \in UNION {[1..k -> Files] : k \in 0..MaxFiles}}

-----------------------------------------------------------------------------
(* pre_process_subject_data: main, statement by statement *)

\* the write moved ahead of the gap filling
after_write_early(stage) ==
    CASE stage = "check_path" -> "connect"
      [] stage = "connect" -> "check_subject"
      [] stage = "check_subject" -> "read"
      [] stage = "read" -> "write"
      [] stage = "write" -> "fill"
      [] stage = "fill" -> "divide"
      [] stage = "divide" -> "exited"

\* lines 53-77: the statement that follows each statement of main
after(stage) ==
    CASE stage = "check_path" -> "connect"
      [] stage = "connect" -> "check_subject"
      [] stage = "check_subject" -> "read"
      [] stage = "read" -> "fill"
      [] stage = "fill" -> "divide"
      [] stage = "divide" -> "write"
      [] stage = "write" -> "exited"

\* an exception leaves main
proceed(stage, err) == IF err = "ok" THEN after(stage) ELSE "exited"

RunInit ==
    /\ database_exists \in BOOLEAN
    /\ all_subjects_table = <<>>
    /\ subject_num = 0
    /\ subject_files_path = <<>>
    /\ folder = [exists |-> FALSE, files |-> <<>>]
    /\ tz_offset = 0
    /\ database_already_existed = FALSE
    /\ subject_data = None
    /\ pc = "idle"
    /\ error = "ok"
    /\ calls = <<>>
    /\ store_before = [database_exists |-> database_exists, all_subjects_table |-> <<>>]
    /\ FillIdle
    /\ DayIdle

\* the script is started, lines 45-51
RunStart ==
    /\ pc = "idle"
    /\ Len(all_subjects_table) < MaxAppends
    /\ subject_num' \in Subjects
    /\ subject_files_path' \in Paths
    /\ folder' \in Folders
    /\ tz_offset' \in PacificOffsets
    /\ database_already_existed' = FALSE
    /\ subject_data' = None
    /\ pc' = "check_path"
    /\ error' = "ok"
    /\ calls' = <<>>
    /\ store_before' = [database_exists |-> database_exists,
                        all_subjects_table |-> all_subjects_table]
    /\ UNCHANGED <<fillVars, dayVars, storeVars>>

\* lines 53-54
MainCheckPath ==
    /\ pc = "check_path"
    /\ error' = check_if_subject_num_matches_subject_files_path(subject_num, subject_files_path)
    /\ pc' = proceed("check_path", error')
    /\ calls' = IF error' = "ok"
                THEN Append(calls, "check_if_subject_num_matches_subject_files_path")
                ELSE calls
    /\ UNCHANGED <<subject_num, subject_files_path, folder, tz_offset,
                   database_already_existed, subject_data, store_before>>
    /\ UNCHANGED <<fillVars, dayVars, storeVars>>

\* lines 57-58
MainConnect ==
    /\ pc = "connect"
    /\ LET connected == connect_to_sql_database(database_exists)
       IN  /\ database_exists' = connected.database_exists
           /\ database_already_existed' = connected.db_already_exists
    /\ pc' = proceed("connect", "ok")
    /\ calls' = Append(calls, "connect_to_sql_database")
    /\ UNCHANGED <<subject_num, subject_files_path, folder, tz_offset, subject_data,
                   error, store_before, all_subjects_table>>
    /\ UNCHANGED <<fillVars, dayVars>>

\* lines 61-62
MainCheckSubject ==
    /\ pc = "check_subject"
    /\ IF database_already_existed
       THEN /\ error' = check_if_subject_already_in_table(subject_num, all_subjects_table)
            /\ calls' = IF error' = "ok"
                        THEN Append(calls, "check_if_subject_already_in_table")
                        ELSE calls
       ELSE /\ error' = "ok"
            /\ calls' = calls
    /\ pc' = proceed("check_subject", error')
    /\ UNCHANGED <<subject_num, subject_files_path, folder, tz_offset,
                   database_already_existed, subject_data, store_before>>
    /\ UNCHANGED <<fillVars, dayVars, storeVars>>

\* line 65
MainRead ==
    /\ pc = "read"
    /\ LET got == read_data(folder, tz_offset, SecondsPerHour)
       IN  /\ error' = got.err
           /\ subject_data' = got.df
    /\ pc' = proceed("read", error')
    /\ calls' = IF error' = "ok" THEN Append(calls, "read_data") ELSE calls
    /\ UNCHANGED <<subject_num, subject_files_path, folder, tz_offset,
                   database_already_existed, store_before>>
    /\ UNCHANGED <<fillVars, dayVars, storeVars>>

\* line 67
MainFill ==
    /\ pc = "fill"
    /\ LET got == fill_missing_data(subject_data)
       IN  /\ error' = got.err
           /\ subject_data' = got.df
    /\ pc' = proceed("fill", error')
    /\ calls' = IF error' = "ok" THEN Append(calls, "fill_missing_data") ELSE calls
    /\ UNCHANGED <<subject_num, subject_files_path, folder, tz_offset,
                   database_already_existed, store_before>>
    /\ UNCHANGED <<fillVars, dayVars, storeVars>>

\* line 69
MainDivide ==
    /\ pc = "divide"
    /\ subject_data' =
          [index |-> subject_data.index,
           date_time |-> subject_data.date_time,
           meas_sig_str |-> subject_data.meas_sig_str,
           num_days |-> divide_to_24_hour_periods(subject_data.index,
                            subject_data.date_time, SecondsPerHour)]
    /\ pc' = proceed("divide", "ok")
    /\ calls' = Append(calls, "divide_to_24_hour_periods")
    /\ UNCHANGED <<subject_num, subject_files_path, folder, tz_offset,
                   database_already_existed, error, store_before>>
    /\ UNCHANGED <<fillVars, dayVars, storeVars>>

\* lines 72-77
MainWrite ==
    /\ pc = "write"
    /\ all_subjects_table' = write_to_sql_database(all_subjects_table, subject_data, subject_num)
    /\ pc' = proceed("write", "ok")
    /\ calls' = Append(calls, "write_to_sql_database")
    /\ UNCHANGED <<subject_num, subject_files_path, folder, tz_offset,
                   database_already_existed, subject_data, error, store_before,
                   database_exists>>
    /\ UNCHANGED <<fillVars, dayVars>>

\* the process ends; nothing of a run outlives it but the store
MainExit ==
    /\ pc = "exited"
    /\ subject_num' = 0
    /\ subject_files_path' = <<>>
    /\ folder' = [exists |-> FALSE, files |-> <<>>]
    /\ tz_offset' = 0
    /\ database_already_existed' = FALSE
    /\ subject_data' = None
    /\ pc' = "idle"
    /\ error' = "ok"
    /\ calls' = <<>>
    /\ store_before' = [database_exists |-> database_exists,
                        all_subjects_table |-> all_subjects_table]
    /\ UNCHANGED <<fillVars, dayVars, storeVars>>

RunNext ==
    \/ RunStart
    \/ MainCheckPath
    \/ MainConnect
    \/ MainCheckSubject
    \/ MainRead
    \/ MainFill
    \/ MainDivide
    \/ MainWrite
    \/ MainExit

SpecRun == RunInit /\ [][RunNext]_vars

-----------------------------------------------------------------------------
(* Properties of fill_missing_data *)

MissingBlocks == {k \in DOMAIN layout : k % 2 = 0}

MeasuredBlocks == {k \in DOMAIN layout : k % 2 = 1}

LastSecond == Total(layout) - 1

FillOver == fpc \in {"check", "done"}

\* the signal a frame holds at the row labelled s
SignalOf(df, at, s) == df.meas_sig_str[at[s]]

\* the L seconds before missing block k are all measured seconds of the
\* block right before it
HasSource(k) == layout[k - 1] >= layout[k]

\* C1: the returned timeline is indexed by exactly 0..max input second, each
\* second once, the last recorded second included
C1_IndexIsWholeRange ==
    (fpc = "done" /\ fill_result.err = "ok") =>
        LET index == fill_result.df.index
        IN  /\ Range(index) = 0..LastSecond
            /\ Len(index) = LastSecond + 1

C1_Witness ==
    /\ fpc = "done"
    /\ fill_result.err = "ok"
    /\ Len(layout) = 1
    /\ layout[1] > 1
    /\ fill_result.df.index = Ascending(0, LastSecond)

AtLongBlock ==
    /\ fpc = "loop"
    /\ block_groups # <<>>
    /\ Head(block_groups).key[2] = MissingFlag
    /\ Len(Head(block_groups).index) > FillCeiling

C4_LongRowsUnset ==
    FillOver =>
        LET at == PosOf(full_subject_df.index)
        IN  /\ \A k \in MissingBlocks : layout[k] > FillCeiling =>
                   \A s \in BlockSecs(layout, k) : SignalOf(full_subject_df, at, s) = NaN
            /\ \A k \in MeasuredBlocks : \A s \in BlockSecs(layout, k) :
                   s \in DOMAIN at => SignalOf(full_subject_df, at, s) = SignalAt(s)

\* visiting a long block leaves the timeline and everything later blocks
\* are filled from as they were
C4_LongVisitChangesNothing ==
    AtLongBlock =>
        /\ full_subject_df' = full_subject_df
        /\ sig_str_df'.meas_sig_str = sig_str_df.meas_sig_str
        /\ sig_str_df'.copy_sig = sig_str_df.copy_sig
        /\ fill_result' = fill_result

\* C4: the rows of a missing block of more than 300 seconds stay unset, every
\* measured row keeps its input signal, and the visit of a long block changes
\* no row of the timeline, so every other block is filled as if the long
\* block were not there
C4_LongBlocksStayUnset == []C4_LongRowsUnset /\ [][C4_LongVisitChangesNothing]_vars

C4_Witness ==
    /\ fpc = "done"
    /\ \E k, j \in MissingBlocks :
          /\ layout[k] > FillCeiling
          /\ j > k
          /\ \A s \in BlockSecs(layout, k) : fill_result.df.meas_sig_str[s + 1] = NaN
          /\ \E s \in BlockSecs(layout, j) : fill_result.df.meas_sig_str[s + 1] # NaN

\* C10: a missing block of at most 300 seconds whose preceding seconds are
\* not all measured is left wholly unset, and no error is raised
C10_NoSourceLeftUnset ==
    FillOver =>
        /\ fill_result.err = "ok"
        /\ LET at == PosOf(full_subject_df.index)
           IN  \A k \in MissingBlocks :
                   (layout[k] <= FillCeiling /\ ~HasSource(k)) =>
                       \A s \in BlockSecs(layout, k) :
                           SignalOf(full_subject_df, at, s) = NaN

-----------------------------------------------------------------------------
(* Properties of divide_to_24_hour_periods *)

DaysOver == dpc = "done"

Stamps == date_time.stamps

\* the first local noon at or after t
NoonAtOrAfter(t) ==
    IF t <= noon_of(date(t, TicksPerHour), TicksPerHour)
    THEN noon_of(date(t, TicksPerHour), TicksPerHour)
    ELSE noon_of(date(t, TicksPerHour) + 1, TicksPerHour)

\* the day whose window holds time t: day 1 ends at the first noon at or after
\* the start, every later day is 24 hours from noon to noon
WindowOf(t) ==
    LET noon == NoonAtOrAfter(Stamps[1])
    IN  IF t < noon THEN 1 ELSE 2 + ((t - noon) \div Timedelta24(TicksPerHour))

\* C2: every record has a day number, the first record has day 1, and day
\* numbers never decrease along the timeline
C2_EveryRecordHasDay ==
    DaysOver =>
        /\ \A i \in DOMAIN day_nums : day_nums[i] # NaN
        /\ day_nums[1] = 1
        /\ \A i \in DOMAIN day_nums : i > 1 => day_nums[i - 1] <= day_nums[i]

\* C8: day 1 holds the records before the first local noon at or after the
\* start, each later day the records of the next 24 hours from noon to noon,
\* the last day what remains
C8_DayWindows ==
    DaysOver => \A i \in DOMAIN day_nums : day_nums[i] = WindowOf(Stamps[i])

\* the first local noon after t
FirstNoonAfter(t) ==
    IF t < noon_of(date(t, TicksPerHour), TicksPerHour)
    THEN noon_of(date(t, TicksPerHour), TicksPerHour)
    ELSE noon_of(date(t, TicksPerHour) + 1, TicksPerHour)

\* the j-th noon boundary after the start of the recording, j from 0
Boundary(j) == FirstNoonAfter(Stamps[1]) + j * Timedelta24(TicksPerHour)

\* the onsets after the recording start: the noon boundaries before the last
\* time stamp
LaterOnsets == {j \in 0..Len(Stamps) : Boundary(j) < Stamps[Len(Stamps)]}

\* the index, from 0, of the latest onset at or before t in the sequence
\* [start, Boundary(0), Boundary(1), ...]
LatestOnset(t) == Cardinality({j \in LaterOnsets : Boundary(j) <= t})

\* C11: every record has the day number d + 1, d the index of the latest onset
\* at or before its time stamp, in the sequence of the recording start and the
\* noon boundaries before the last time stamp; so no record of the penultimate
\* window has the final day's number and no record of the final window is left
\* out or has the penultimate day's number
C11_LatestOnsetNumbering ==
    DaysOver => \A i \in DOMAIN day_nums : day_nums[i] = LatestOnset(Stamps[i]) + 1

-----------------------------------------------------------------------------
(* Properties of the orchestrator *)

Store == [database_exists |-> database_exists, all_subjects_table |-> all_subjects_table]

TableBefore == store_before.all_subjects_table

Called(name) == \E i \in DOMAIN calls : calls[i] = name

Stages == {"read_data", "fill_missing_data", "divide_to_24_hour_periods"}

RunOver == pc = "exited"

\* C5: a run appends to the table at most once, only when read_data,
\* fill_missing_data and divide_to_24_hour_periods have returned in this order
\* just before, and a run that ended in an error has appended nothing
C5_AppendOnceAfterAllStages ==
    /\ Len(all_subjects_table) <= Len(TableBefore) + 1
    /\ SubSeq(all_subjects_table, 1, Len(TableBefore)) = TableBefore
    /\ all_subjects_table # TableBefore =>
          /\ error = "ok"
          /\ Len(calls) >= 4
          /\ calls[Len(calls)] = "write_to_sql_database"
          /\ SubSeq(calls, Len(calls) - 3, Len(calls) - 1) =
                 <<"read_data", "fill_missing_data", "divide_to_24_hour_periods">>
    /\ error # "ok" => all_subjects_table = TableBefore

C5_Witness ==
    /\ RunOver
    /\ error = "ok"
    /\ Len(TableBefore) = 1
    /\ Len(all_subjects_table) = 2

PreconditionErrors ==
    {"Subject_num_does_not_match_subject_files_path",
     "DataFileOrFolderDoesNotExistError",
     "SubjectExistsInDBError"}

\* C6: a run ended by a precondition error has run no stage and leaves the
\* store, the existence of the database included, as it was before the run
C6_PreconditionAbortLeavesNothing ==
    (RunOver /\ error \in PreconditionErrors) =>
        /\ \A stage \in Stages : ~Called(stage)
        /\ Store = store_before

\* a file that passes the Validator and has exactly the four columns
WellFormed(file) ==
    /\ file.columns = Columns
    /\ Len(file.index) > 0
    /\ \A i \in DOMAIN file.time : file.time[i] # NaN /\ file.meas_sig_str[i] # NaN

NotHeader(v) == v # Header

\* read_data was entered in this run and has returned or raised
ReadOver ==
    \/ pc = "fill"
    \/ /\ RunOver
       /\ Called("connect_to_sql_database")
       /\ ~Called("read_data")
       /\ error # "SubjectExistsInDBError"

\* C7: with at least one well-formed file in the folder, read_data raises
\* nothing and returns exactly the rows of the well-formed files, in order
C7_BadFilesAreDropped ==
    LET survivors == SelectSeq(folder.files, WellFormed)
        times == SelectSeq(Joined(survivors, "time"), NotHeader)
    IN  (ReadOver /\ folder.exists /\ survivors # <<>>) =>
            /\ pc = "fill"
            /\ subject_data.meas_sig_str =
                   SelectSeq(Joined(survivors, "meas_sig_str"), NotHeader)
            /\ subject_data.date_time =
                   [i \in DOMAIN times |-> times[i] - tz_offset * SecondsPerHour]

InStoreBefore == \E i \in DOMAIN TableBefore : TableBefore[i].subject_num = subject_num

\* the run went past the duplicate guard without calling it
GuardSkipped ==
    /\ Called("connect_to_sql_database")
    /\ pc # "check_subject"
    /\ ~Called("check_if_subject_already_in_table")
    /\ error # "SubjectExistsInDBError"

GuardedStore ==
    /\ InStoreBefore => (~Called("read_data") /\ pc \notin {"read", "fill", "divide", "write"})
    /\ GuardSkipped => ~store_before.database_exists
    /\ \A i, j \in DOMAIN all_subjects_table :
          all_subjects_table[i].subject_num = all_subjects_table[j].subject_num => i = j

InputSeconds ==
    LET times == Range(SelectSeq(Joined(folder.files, "time"), NotHeader))
    IN  {t - u : t \in times, u \in {v \in times : \A w \in times : v <= w}}

\* every file is well-formed and no second is recorded twice
ValidInput ==
    /\ folder.exists
    /\ folder.files # <<>>
    /\ \A i \in DOMAIN folder.files : WellFormed(folder.files[i])
    /\ Cardinality(InputSeconds) =
           Len(SelectSeq(Joined(folder.files, "time"), NotHeader))

\* the seconds of the gaps longer than the ceiling: between two recorded
\* seconds more than FillCeiling apart with nothing recorded in between
LongGapSeconds ==
    UNION {(a + 1)..(b - 1) : <<a, b>> \in
              {p \in InputSeconds \X InputSeconds :
                  /\ p[2] - p[1] - 1 > FillCeiling
                  /\ \A c \in InputSeconds : ~(p[1] < c /\ c < p[2])}}

\* the run got past the precondition checks of main
PreconditionsMet ==
    /\ Called("connect_to_sql_database")
    /\ error # "SubjectExistsInDBError"

Written == all_subjects_table[Len(all_subjects_table)]

\* C12: a run on valid input with a gap longer than 300 seconds raises
\* nothing: the gate after the gap filling lets a frame with NaNs pass and
\* still raises on None and on an empty frame, the run goes on through
\* divide_to_24_hour_periods to the append, and every row of the long gap is
\* in the written rows without a signal value
C12_LongGapRunCompletes ==
    /\ checked_return(None).err = "DataFrameIsNone"
    /\ checked_return(NoFrame).err = "DataFrameIsEmpty"
    /\ (RunOver /\ PreconditionsMet /\ ValidInput /\ LongGapSeconds # {}) =>
          /\ error = "ok"
          /\ calls[Len(calls)] = "write_to_sql_database"
          /\ Called("fill_missing_data")
          /\ Called("divide_to_24_hour_periods")
          /\ Len(all_subjects_table) = Len(TableBefore) + 1
          /\ Written.subject_num = subject_num
          /\ \A s \in LongGapSeconds :
                /\ s \in Range(Written.index)
                /\ Written.meas_sig_str[PosOf(Written.index)[s]] = NaN

C12_Witness ==
    /\ RunOver
    /\ PreconditionsMet
    /\ ValidInput
    /\ Cardinality(LongGapSeconds) > FillCeiling
    /\ error = "ok"
    /\ Len(all_subjects_table) = Len(TableBefore) + 1

====
